---- MODULE Spec2Model ----
(***************************************************************************)
(* Model of src/app.py: the Streamlit button handler that validates the    *)
(* inputs, classifies the URL, acquires a Document through an ordered list *)
(* of strategies and sends it to the summarization chain.  Strings are     *)
(* sequences of one-character strings, so that substring search, split,    *)
(* strip, lower and slicing are computed the way Python computes them.     *)
(***************************************************************************)
EXTENDS Integers, Sequences, FiniteSets, TLC

(***************************************************************************)
(* Bounds of the model.                                                    *)
(***************************************************************************)
MaxSegs == 2        \* transcript segments returned by the transcript service
DescSlack == 1      \* description lengths explored around each threshold
MaxPieces == 3      \* URL fragments concatenated into an extractor input

(***************************************************************************)
(* Program constants.                                                      *)
(***************************************************************************)
DescMinLen == 100   \* len(description) > 100
DescMaxLen == 2000  \* description[:2000]

(***************************************************************************)
(* String literals of the program.                                         *)
(***************************************************************************)
S_youtube_com == <<"y", "o", "u", "t", "u", "b", "e", ".", "c", "o", "m">>
S_youtu_be == <<"y", "o", "u", "t", "u", ".", "b", "e">>
S_yt_watch == <<"y", "o", "u", "t", "u", "b", "e", ".", "c", "o", "m", "/", "w", "a", "t", "c", "h", "?", "v", "=">>
S_watch == <<"w", "a", "t", "c", "h", "?", "v", "=">>
S_youtu_be_slash == <<"y", "o", "u", "t", "u", ".", "b", "e", "/">>
S_amp == <<"&">>
S_qmark == <<"?">>
S_space == <<" ">>
S_groq_api_key == <<"g", "r", "o", "q", "_", "a", "p", "i", "_", "k", "e", "y">>
S_api_key == <<"a", "p", "i", " ", "k", "e", "y">>
S_quota == <<"q", "u", "o", "t", "a">>

\* Python's None, a value different from every string.
None == <<"None">>

(***************************************************************************)
(* Python string primitives.                                               *)
(***************************************************************************)
Whitespace == {" ", "\t", "\n"}

UpperChars == <<"A", "B", "C", "D", "E", "F", "G", "H", "I", "J", "K", "L", "M", "N", "O", "P", "Q", "R", "S", "T", "U", "V", "W", "X", "Y", "Z">>
LowerChars == <<"a", "b", "c", "d", "e", "f", "g", "h", "i", "j", "k", "l", "m", "n", "o", "p", "q", "r", "s", "t", "u", "v", "w", "x", "y", "z">>

Min(a, b) == IF a <= b THEN a ELSE b

\* str.find: the 1-based index of the first occurrence of sub in s, 0 if none.
Find(s, sub) ==
    LET hits == {i \in 1..(Len(s) - Len(sub) + 1) : SubSeq(s, i, i + Len(sub) - 1) = sub}
    IN IF hits = {} THEN 0 ELSE CHOOSE i \in hits : \A j \in hits : i <= j

\* `sub in s`
Contains(s, sub) == Find(s, sub) # 0

\* s.split(sep) for a non-empty separator: non-overlapping, left to right.
RECURSIVE Split(_, _)
Split(s, sep) ==
    IF ~Contains(s, sep) THEN <<s>>
    ELSE LET i == Find(s, sep)
         IN <<SubSeq(s, 1, i - 1)>> \o Split(SubSeq(s, i + Len(sep), Len(s)), sep)

\* s.strip()
Strip(s) ==
    LET keep == {i \in 1..Len(s) : s[i] \notin Whitespace}
    IN IF keep = {} THEN <<>>
       ELSE SubSeq(s, CHOOSE i \in keep : \A j \in keep : i <= j,
                      CHOOSE i \in keep : \A j \in keep : i >= j)

\* s.lower()
Lower(s) ==
    [i \in 1..Len(s) |->
        IF \E k \in 1..Len(UpperChars) : UpperChars[k] = s[i]
        THEN LowerChars[CHOOSE k \in 1..Len(UpperChars) : UpperChars[k] = s[i]]
        ELSE s[i]]

\* sep.join(parts)
RECURSIVE Join(_, _)
Join(sep, parts) ==
    IF Len(parts) = 0 THEN <<>>
    ELSE IF Len(parts) = 1 THEN parts[1]
    ELSE parts[1] \o sep \o Join(sep, Tail(parts))

\* s[:n]
Slice(s, n) == SubSeq(s, 1, Min(Len(s), n))

\* Python truthiness of an optional string.
Truthy(x) == x # None /\ x # <<>>

(***************************************************************************)
(* extract_video_id                                                        *)
(***************************************************************************)
extract_video_id_swapped(url) ==
    IF Contains(url, S_youtu_be_slash)
    THEN Split(Split(url, S_youtu_be_slash)[2], S_qmark)[1]
    ELSE IF Contains(url, S_yt_watch)
    THEN Split(Split(url, S_watch)[2], S_amp)[1]
    ELSE None

extract_video_id(url) ==
    IF Contains(url, S_yt_watch)
    THEN Split(Split(url, S_watch)[2], S_amp)[1]
    ELSE IF Contains(url, S_youtu_be_slash)
    THEN Split(Split(url, S_youtu_be_slash)[2], S_qmark)[1]
    ELSE None

(***************************************************************************)
(* Inputs of a click and results of the external calls.                    *)
(***************************************************************************)
S_scheme == <<"h", "t", "t", "p", "s", ":", "/", "/">>
U_watch == <<"h", "t", "t", "p", "s", ":", "/", "/", "y", "o", "u", "t", "u", "b", "e", ".", "c", "o", "m", "/", "w", "a", "t", "c", "h", "?", "v", "=", "a", "b", "&", "t", "=", "1">>
U_short == <<"h", "t", "t", "p", "s", ":", "/", "/", "y", "o", "u", "t", "u", ".", "b", "e", "/", "a", "b", "?", "t", "=", "1">>
U_channel == <<"h", "t", "t", "p", "s", ":", "/", "/", "y", "o", "u", "t", "u", "b", "e", ".", "c", "o", "m", "/", "c", "h", "a", "n", "n", "e", "l">>
U_emptyid == <<"h", "t", "t", "p", "s", ":", "/", "/", "y", "o", "u", "t", "u", "b", "e", ".", "c", "o", "m", "/", "w", "a", "t", "c", "h", "?", "v", "=">>
U_site == <<"h", "t", "t", "p", "s", ":", "/", "/", "e", "x", ".", "c", "o", "m", "/", "a">>
U_bad == <<"e", "x", " ", "c", "o", "m">>
U_noscheme == <<"y", "o", "u", "t", "u", ".", "b", "e", "/", "a", "b">>
M_quota == <<"q", "u", "o", "t", "a", " ", "e", "x", "c", "e", "e", "d", "e", "d">>
M_Quota == <<"Q", "u", "o", "t", "a", " ", "e", "x", "c", "e", "e", "d", "e", "d">>
M_both == <<"q", "u", "o", "t", "a", " ", "e", "x", "c", "e", "e", "d", "e", "d", " ", "f", "o", "r", " ", "a", "p", "i", " ", "k", "e", "y">>
M_key == <<"I", "n", "v", "a", "l", "i", "d", " ", "A", "P", "I", " ", "K", "e", "y">>
M_env == <<"G", "R", "O", "Q", "_", "A", "P", "I", "_", "K", "E", "Y", " ", "n", "o", "t", " ", "s", "e", "t">>
M_boom == <<"b", "o", "o", "m">>
T_hello == <<"H", "e", "l", "l", "o">>
T_world == <<"w", "o", "r", "l", "d">>

SeqsUpTo(S, n) == UNION {[1..k -> S] : k \in 0..n}

\* Values typed into the two text inputs.
Keys == {<<>>, <<" ">>, <<"g", "s", "k">>}
ClickUrls == {<<>>, <<" ">>, U_watch, U_short, U_channel, U_emptyid, U_site, U_bad, U_noscheme}

\* str(e) of an exception raised by ChatGroq(...) or chain.run(docs).
ErrMsgs == {M_quota, M_Quota, M_both, M_key, M_env, M_boom}

\* page_content of a Document returned by a langchain loader.
LoaderContents == {<<>>, T_hello}

\* item['text'] of the transcript segments.
SegTexts == {<<>>, T_hello, T_world}
TranscriptLists == SeqsUpTo(SegTexts, MaxSegs)

\* info.get('description', ''): None, or a text of one of the lengths below.
DescText(n) == [i \in 1..n |-> IF i % 2 = 1 THEN "d" ELSE "e"]
DescLens ==
    {0} \cup ((DescMinLen - DescSlack)..(DescMinLen + DescSlack))
        \cup ((DescMaxLen - DescSlack)..(DescMaxLen + DescSlack))
Descriptions == {None} \cup {DescText(n) : n \in DescLens}

(***************************************************************************)
(* Documents and banners.                                                  *)
(***************************************************************************)
\* docs = None
NoDocs == [none |-> TRUE, items |-> <<>>]

\* A Document of a langchain loader: native metadata, no "method" key.
LoaderDoc(content, url) ==
    [page_content |-> content, metadata |-> [source |-> url, method |-> "absent"]]

\* SimpleDoc(transcript_text, {"source": generic_url, "method": method})
SimpleDoc(content, url, m) ==
    [page_content |-> content, metadata |-> [source |-> url, method |-> m]]

LoaderResults(url) == {<<>>} \cup {<<LoaderDoc(c, url)>> : c \in LoaderContents}

Banner(k, i) == [kind |-> k, id |-> i]

(***************************************************************************)
(* Decisions of the button handler.                                        *)
(***************************************************************************)
\* validators.url on the URLs of ClickUrls: a scheme, a host, no whitespace.
ValidatorsUrl(url) ==
    /\ Len(url) > Len(S_scheme)
    /\ SubSeq(url, 1, Len(S_scheme)) = S_scheme
    /\ \A i \in 1..Len(url) : url[i] \notin Whitespace

ValidationOutcome_nostrip(key, url) ==
    IF key = <<>> \/ url = <<>> THEN "missing"
    ELSE IF ~ValidatorsUrl(url) THEN "invalid"
    ELSE "ok"

ValidationOutcome(key, url) ==
    IF Strip(key) = <<>> \/ Strip(url) = <<>> THEN "missing"
    ELSE IF ~ValidatorsUrl(url) THEN "invalid"
    ELSE "ok"

\* "youtube.com" in generic_url or "youtu.be" in generic_url
IsYouTube(url) == Contains(url, S_youtube_com) \/ Contains(url, S_youtu_be)

PrimaryFallsBack_always(kind) == TRUE

\* The fallback runs in the except clause of the primary loader only.
PrimaryFallsBack(kind) == kind = "raised"

Gate_notnone(d) == ~d.none

\* if docs and len(docs) > 0
Gate(d) == ~d.none /\ d.items # <<>> /\ Len(d.items) > 0

NoContentBanner_warning == <<Banner("warning", "no_content")>>

\* st.error("Could not load any content from the URL")
NoContentBanner == <<Banner("error", "no_content")>>

ClassifyError_nolower(msg) ==
    IF Contains(msg, S_groq_api_key) \/ Contains(msg, S_api_key) THEN "err_credential"
    ELSE IF Contains(msg, S_quota) THEN "err_quota"
    ELSE "err_unexpected"

\* The outer except clause: which message is shown for str(e).
ClassifyError(msg) ==
    LET error_msg == Lower(msg)
    IN IF Contains(error_msg, S_groq_api_key) \/ Contains(error_msg, S_api_key)
       THEN "err_credential"
       ELSE IF Contains(error_msg, S_quota) THEN "err_quota"
       ELSE "err_unexpected"

DescriptionResult_atleast(d) ==
    IF Truthy(d) /\ Len(d) >= DescMinLen
    THEN [text |-> Slice(d, DescMaxLen), method |-> "description"]
    ELSE [text |-> None, method |-> "None"]

\* Method 2 of get_youtube_transcript, once extract_info has returned.
DescriptionResult(d) ==
    IF Truthy(d) /\ Len(d) > DescMinLen
    THEN [text |-> Slice(d, DescMaxLen), method |-> "description"]
    ELSE [text |-> None, method |-> "None"]

TranscriptResult_mistagged(transcript_list) ==
    [text |-> Join(S_space, transcript_list), method |-> "description"]

\* Method 1 of get_youtube_transcript, once get_transcript has returned.
TranscriptResult(transcript_list) ==
    [text |-> Join(S_space, transcript_list), method |-> "transcript-api"]

(***************************************************************************)
(* State of one run of the script after a click.                           *)
(***************************************************************************)
VARIABLES
    pc,               \* position in the handler
    groq_api_key,     \* the sidebar input
    generic_url,      \* the URL input
    calls,            \* the external calls made in this click, in order
    outcome,          \* how each external call ended in this click
    video_id,         \* extract_video_id(generic_url)
    transcript_list,  \* what get_transcript returned
    description,      \* info.get('description', '')
    transcript_text,  \* first component of get_youtube_transcript's result
    method,           \* second component of get_youtube_transcript's result
    docs,             \* the loaded documents, or None
    summarizer_input, \* the argument of chain.run
    raised,           \* str(e) caught by the outer except clause, or None
    display           \* the banners shown by this click, in order

vars == <<pc, groq_api_key, generic_url, calls, outcome, video_id, transcript_list,
          description, transcript_text, method, docs, summarizer_input, raised, display>>

Untried ==
    [llm |-> "untried", primary |-> "untried", transcript |-> "untried",
     ytdlp |-> "untried", website |-> "untried", chain |-> "untried"]

Init ==
    /\ pc = "idle"
    /\ groq_api_key = <<>>
    /\ generic_url = <<>>
    /\ calls = <<>>
    /\ outcome = Untried
    /\ video_id = None
    /\ transcript_list = <<>>
    /\ description = None
    /\ transcript_text = None
    /\ method = "None"
    /\ docs = NoDocs
    /\ summarizer_input = NoDocs
    /\ raised = None
    /\ display = <<>>

\* Lines 158-173 once loading is over: the summary gate.
EndOfLoading(newDocs, shown) ==
    /\ docs' = newDocs
    /\ IF Gate(newDocs)
       THEN /\ pc' = "summarize"
            /\ display' = shown
       ELSE /\ pc' = "done"
            /\ display' = shown \o NoContentBanner

\* Lines 175-182: the outer except clause.
Caught(msg, shown) ==
    /\ raised' = msg
    /\ display' = shown \o <<Banner("error", ClassifyError(msg))>>
    /\ pc' = "done"

\* Lines 116-140: the handler's use of get_youtube_transcript's result.
FallbackReturned(r, shown) ==
    /\ transcript_text' = r.text
    /\ method' = r.method
    /\ IF Truthy(r.text)
       THEN EndOfLoading([none |-> FALSE,
                          items |-> <<SimpleDoc(r.text, generic_url, r.method)>>],
                         shown \o <<Banner("success", "loaded_fallback")>>)
       ELSE EndOfLoading(docs, shown \o <<Banner("error", "all_failed"),
                                          Banner("info", "troubleshooting")>>)

\* A click on the button: the script reruns from the top; lines 79-85.
Click(key, url) ==
    /\ pc \in {"idle", "done"}
    /\ groq_api_key' = key
    /\ generic_url' = url
    /\ calls' = <<>>
    /\ outcome' = Untried
    /\ video_id' = None
    /\ transcript_list' = <<>>
    /\ description' = None
    /\ transcript_text' = None
    /\ method' = "None"
    /\ docs' = NoDocs
    /\ summarizer_input' = NoDocs
    /\ raised' = None
    /\ LET v == ValidationOutcome(key, url)
       IN IF v = "missing"
          THEN /\ display' = <<Banner("error", "validation_missing")>>
               /\ pc' = "done"
          ELSE IF v = "invalid"
          THEN /\ display' = <<Banner("error", "validation_url")>>
               /\ pc' = "done"
          ELSE /\ display' = <<>>
               /\ pc' = "llm"

\* Lines 89-100 and 142-144: ChatGroq(...), then the URL classification.
InitLLM(res) ==
    /\ pc = "llm"
    /\ UNCHANGED <<groq_api_key, generic_url, transcript_list, description,
                   transcript_text, method, summarizer_input>>
    /\ IF res.kind = "raised"
       THEN /\ calls' = calls \o <<"ChatGroq">>
            /\ outcome' = [outcome EXCEPT !.llm = "raised"]
            /\ Caught(res.msg, display)
            /\ UNCHANGED <<video_id, docs>>
       ELSE /\ outcome' = [outcome EXCEPT !.llm = "returned"]
            /\ raised' = raised
            /\ IF IsYouTube(generic_url)
               THEN /\ calls' = calls \o <<"ChatGroq", "classify", "extract_video_id">>
                    /\ video_id' = extract_video_id(generic_url)
                    /\ IF ~Truthy(video_id')
                       THEN EndOfLoading(NoDocs, display \o <<Banner("info", "loading_youtube"),
                                                              Banner("error", "no_video_id")>>)
                       ELSE /\ pc' = "primary"
                            /\ docs' = NoDocs
                            /\ display' = display \o <<Banner("info", "loading_youtube")>>
               ELSE /\ calls' = calls \o <<"ChatGroq", "classify">>
                    /\ video_id' = video_id
                    /\ pc' = "website"
                    /\ docs' = NoDocs
                    /\ display' = display \o <<Banner("info", "loading_website")>>

\* Lines 102-113: YoutubeLoader.from_youtube_url(...).load().
PrimaryLoader(res) ==
    /\ pc = "primary"
    /\ calls' = calls \o <<"YoutubeLoader">>
    /\ outcome' = [outcome EXCEPT !.primary = res.kind]
    /\ UNCHANGED <<groq_api_key, generic_url, video_id, transcript_list, description,
                   transcript_text, method, summarizer_input, raised>>
    /\ IF PrimaryFallsBack(res.kind)
       THEN /\ pc' = "transcript"
            /\ docs' = docs
            /\ display' = display \o <<Banner("warning", "primary_failed")>>
       ELSE EndOfLoading([none |-> FALSE, items |-> res.items],
                         display \o <<Banner("success", "loaded_primary")>>)

\* Lines 39-47: Method 1 of get_youtube_transcript.
TranscriptService(res) ==
    /\ pc = "transcript"
    /\ outcome' = [outcome EXCEPT !.transcript = res.kind]
    /\ UNCHANGED <<groq_api_key, generic_url, video_id, description, summarizer_input, raised>>
    /\ IF res.kind = "returned"
       THEN /\ calls' = calls \o <<"get_transcript">>
            /\ transcript_list' = res.items
            /\ FallbackReturned(TranscriptResult(res.items), display)
       ELSE /\ calls' = IF res.kind = "raised" THEN calls \o <<"get_transcript">> ELSE calls
            /\ pc' = "ytdlp"
            /\ display' = display \o <<Banner("warning", IF res.kind = "raised"
                                                         THEN "transcript_failed"
                                                         ELSE "transcript_not_installed")>>
            /\ UNCHANGED <<transcript_list, transcript_text, method, docs>>

\* Lines 49-74: Method 2 of get_youtube_transcript.
YtDlp(res) ==
    /\ pc = "ytdlp"
    /\ outcome' = [outcome EXCEPT !.ytdlp = res.kind]
    /\ UNCHANGED <<groq_api_key, generic_url, video_id, transcript_list, summarizer_input, raised>>
    /\ IF res.kind = "returned"
       THEN /\ calls' = calls \o <<"extract_info">>
            /\ description' = res.description
            /\ FallbackReturned(DescriptionResult(res.description), display)
       ELSE /\ calls' = IF res.kind = "raised" THEN calls \o <<"extract_info">> ELSE calls
            /\ description' = description
            /\ FallbackReturned([text |-> None, method |-> "None"],
                                display \o <<Banner("warning", IF res.kind = "raised"
                                                               THEN "ytdlp_failed"
                                                               ELSE "ytdlp_not_installed")>>)

\* Lines 142-156: UnstructuredURLLoader(...).load().
WebsiteLoader(res) ==
    /\ pc = "website"
    /\ calls' = calls \o <<"UnstructuredURLLoader">>
    /\ outcome' = [outcome EXCEPT !.website = res.kind]
    /\ UNCHANGED <<groq_api_key, generic_url, video_id, transcript_list, description,
                   transcript_text, method, summarizer_input, raised>>
    /\ IF res.kind = "raised"
       THEN EndOfLoading(docs, display \o <<Banner("error", "website_failed")>>)
       ELSE EndOfLoading([none |-> FALSE, items |-> res.items],
                         display \o <<Banner("success", "website_loaded")>>)

\* Lines 160-171: chain.run(docs), the summary and the content details.
Summarize(res) ==
    /\ pc = "summarize"
    /\ calls' = calls \o <<"chain.run">>
    /\ outcome' = [outcome EXCEPT !.chain = res.kind]
    /\ summarizer_input' = docs
    /\ UNCHANGED <<groq_api_key, generic_url, video_id, transcript_list, description,
                   transcript_text, method, docs>>
    /\ IF res.kind = "raised"
       THEN Caught(res.msg, display)
       ELSE /\ raised' = raised
            /\ pc' = "done"
            /\ display' = display \o <<Banner("success", "summary"),
                                       Banner("expander", "details")>>

Raises == {[kind |-> "raised", msg |-> m] : m \in ErrMsgs}
LoaderOutcomes ==
    {[kind |-> "raised", items |-> <<>>]}
        \cup {[kind |-> "returned", items |-> i] : i \in LoaderResults(generic_url)}
TranscriptOutcomes ==
    {[kind |-> "unavailable", items |-> <<>>], [kind |-> "raised", items |-> <<>>]}
        \cup {[kind |-> "returned", items |-> t] : t \in TranscriptLists}
YtDlpOutcomes ==
    {[kind |-> "unavailable", description |-> None], [kind |-> "raised", description |-> None]}
        \cup {[kind |-> "returned", description |-> d] : d \in Descriptions}

Next ==
    \/ \E key \in Keys, url \in ClickUrls : Click(key, url)
    \/ \E res \in Raises \cup {[kind |-> "returned", msg |-> None]} : InitLLM(res)
    \/ \E res \in LoaderOutcomes : PrimaryLoader(res)
    \/ \E res \in TranscriptOutcomes : TranscriptService(res)
    \/ \E res \in YtDlpOutcomes : YtDlp(res)
    \/ \E res \in LoaderOutcomes : WebsiteLoader(res)
    \/ \E res \in Raises \cup {[kind |-> "returned", msg |-> None]} : Summarize(res)

Spec == Init /\ [][Next]_vars

(***************************************************************************)
(* extract_video_id as a pure function of every URL built from at most     *)
(* MaxPieces fragments.                                                    *)
(***************************************************************************)
P_id == <<"a", "b">>
P_other == <<"e", "x", ".", "c", "o", "m", "/">>
ExtractorPieces == {S_yt_watch, S_watch, S_youtu_be_slash, P_id, S_amp, S_qmark, P_other}
ExtractorUrls == {Join(<<>>, ps) : ps \in SeqsUpTo(ExtractorPieces, MaxPieces)}

InitVid ==
    /\ pc = "extract_in"
    /\ generic_url \in ExtractorUrls
    /\ groq_api_key = <<>>
    /\ calls = <<>>
    /\ outcome = Untried
    /\ video_id = None
    /\ transcript_list = <<>>
    /\ description = None
    /\ transcript_text = None
    /\ method = "None"
    /\ docs = NoDocs
    /\ summarizer_input = NoDocs
    /\ raised = None
    /\ display = <<>>

\* video_id = extract_video_id(generic_url)
ExtractVideoId ==
    /\ pc = "extract_in"
    /\ video_id' = extract_video_id(generic_url)
    /\ calls' = calls \o <<"extract_video_id">>
    /\ pc' = "extract_out"
    /\ UNCHANGED <<groq_api_key, generic_url, outcome, transcript_list, description,
                   transcript_text, method, docs, summarizer_input, raised, display>>

NextVid == ExtractVideoId

SpecVid == InitVid /\ [][NextVid]_vars

(***************************************************************************)
(* Vocabulary of the properties.                                           *)
(***************************************************************************)
Called(c) == \E n \in 1..Len(calls) : calls[n] = c
Shown(k, i) == \E n \in 1..Len(display) : display[n] = Banner(k, i)
ErrorShown == \E n \in 1..Len(display) : display[n].kind = "error"
SummaryShown == Shown("success", "summary")
DetailsShown == Shown("expander", "details")
Blank(s) == \A i \in 1..Len(s) : s[i] \in Whitespace
HasDocument(d) == ~d.none /\ Len(d.items) >= 1
Strategies == {"YoutubeLoader", "get_transcript", "extract_info"}
Rank(c) == IF c = "YoutubeLoader" THEN 1 ELSE IF c = "get_transcript" THEN 2 ELSE 3
Pipeline == {"ChatGroq", "classify", "extract_video_id", "YoutubeLoader", "get_transcript",
             "extract_info", "UnstructuredURLLoader", "chain.run"}

\* C1: the YouTube strategies are invoked in the order primary loader,
\* transcript service, video downloader, each at most once and only after the
\* one before it failed; once the primary loader has returned neither of the
\* other two is invoked, and once the transcript service has returned the
\* video downloader is not invoked.
C1_StrategyOrder ==
    /\ \A i, j \in 1..Len(calls) :
          (i < j /\ calls[i] \in Strategies /\ calls[j] \in Strategies)
              => Rank(calls[i]) < Rank(calls[j])
    /\ outcome.primary = "returned" =>
          /\ ~Called("get_transcript") /\ ~Called("extract_info")
          /\ outcome.transcript = "untried" /\ outcome.ytdlp = "untried"
    /\ outcome.transcript = "returned" =>
          ~Called("extract_info") /\ outcome.ytdlp = "untried"
    /\ outcome.transcript # "untried" => outcome.primary = "raised"
    /\ outcome.ytdlp # "untried" => outcome.transcript \in {"raised", "unavailable"}

\* A click in which the primary loader returned and the summary was produced.
C1_Witness ==
    /\ pc = "done"
    /\ outcome.primary = "returned"
    /\ outcome.chain = "returned"
    /\ calls = <<"ChatGroq", "classify", "extract_video_id", "YoutubeLoader", "chain.run">>

\* C2: for a YouTube URL whose video identifier was extracted, a strategy that
\* yields no content is followed by the next strategy, and the click ends
\* without a Document only after the primary loader, the transcript service
\* and the description fallback have each been attempted and have each failed.
C2_FallbackExhaustive ==
    (pc = "done" /\ IsYouTube(generic_url) /\ Truthy(video_id)) =>
        /\ (outcome.primary # "untried" /\ ~HasDocument(docs))
              => outcome.transcript # "untried"
        /\ (outcome.transcript # "untried" /\ ~HasDocument(docs))
              => outcome.ytdlp # "untried"
        /\ (~HasDocument(docs) /\ ErrorShown) =>
              /\ outcome.primary = "raised"
              /\ outcome.transcript \in {"raised", "unavailable"}
              /\ outcome.ytdlp # "untried"

\* C3: when a click that passed validation ends without a Document, the
\* summarization call was not made in it and an error message is displayed;
\* the summarization call is only ever made with a Document.
C3_NoDocumentNoSummary ==
    /\ Called("chain.run") => HasDocument(docs)
    /\ (pc = "done" /\ outcome.llm # "untried" /\ ~HasDocument(docs)) =>
          /\ ~Called("chain.run")
          /\ outcome.chain = "untried"
          /\ ~SummaryShown
          /\ ErrorShown

\* Every YouTube strategy was attempted and failed.
C3_Witness ==
    /\ pc = "done"
    /\ outcome.ytdlp # "untried"
    /\ ~HasDocument(docs)
    /\ Shown("error", "all_failed")
    /\ Shown("error", "no_content")

\* C4: after a click with a blank API key, a blank URL or a malformed URL a
\* validation error is the only thing displayed and no step of the pipeline
\* has run: no client, no classification, no extraction, no loader, no
\* summarization call.
C4_ValidationStops ==
    (pc # "idle" /\ pc # "extract_in" /\ pc # "extract_out"
        /\ (Blank(groq_api_key) \/ Blank(generic_url) \/ ~ValidatorsUrl(generic_url))) =>
        /\ pc = "done"
        /\ \A c \in Pipeline : ~Called(c)
        /\ outcome = Untried
        /\ summarizer_input = NoDocs
        /\ display \in {<<Banner("error", "validation_missing")>>,
                        <<Banner("error", "validation_url")>>}

\* A whitespace-only API key with a well-formed URL.
C4_Witness ==
    /\ pc = "done"
    /\ groq_api_key = <<" ">>
    /\ generic_url = U_site
    /\ display = <<Banner("error", "validation_missing")>>

\* C5: every Document passed to the summarization call has non-empty content.
C5_NonEmptyContent ==
    \A i \in 1..Len(summarizer_input.items) :
        summarizer_input.items[i].page_content # <<>>

\* C6 as stated: a summarization error whose message contains "quota" shows
\* the quota message and neither the credential nor the generic message.
C6_QuotaMessage ==
    (outcome.chain = "raised" /\ Contains(raised, S_quota)) =>
        /\ Shown("error", "err_quota")
        /\ ~Shown("error", "err_credential")
        /\ ~Shown("error", "err_unexpected")

MentionsKey(msg) ==
    Contains(Lower(msg), S_api_key) \/ Contains(Lower(msg), S_groq_api_key)

\* C6 amended: a summarization error whose message contains "quota" in any
\* letter case never shows the generic message; it shows the quota message,
\* unless the message also mentions "api key" or "groq_api_key", and then it
\* shows the credential message instead.
C6_QuotaUnlessKey ==
    (outcome.chain = "raised" /\ Contains(Lower(raised), S_quota)) =>
        /\ ~Shown("error", "err_unexpected")
        /\ Shown("error", "err_quota") <=> ~MentionsKey(raised)
        /\ Shown("error", "err_credential") <=> MentionsKey(raised)

\* The summarization call raised "Quota exceeded".
C6_Witness ==
    /\ pc = "done"
    /\ outcome.chain = "raised"
    /\ raised = M_Quota
    /\ Shown("error", "err_quota")

\* C7: a click that passed validation ends with the summary or with an error
\* message, never both and never neither; the content details are displayed
\* only together with the summary; every raised failure is caught and shown.
C7_BinaryOutcome ==
    /\ DetailsShown => SummaryShown
    /\ (pc = "done" /\ outcome.llm # "untried") =>
          /\ SummaryShown # ErrorShown
          /\ (outcome.llm = "raised" \/ outcome.chain = "raised") =>
                (raised # None /\ ErrorShown /\ ~SummaryShown)

\* A website whose loader returned no Document: an error and no summary.
C7_Witness ==
    /\ pc = "done"
    /\ outcome.website = "returned"
    /\ docs.items = <<>>
    /\ ErrorShown
    /\ ~SummaryShown

\* C8: a Document of a fallback strategy that reaches the summarization call
\* is tagged "transcript-api" exactly when its content is the joined segments
\* the transcript service returned, and "description" exactly when its content
\* is the truncated description the video downloader returned.
C8_MethodNamesProducer ==
    \A i \in 1..Len(summarizer_input.items) :
        LET d == summarizer_input.items[i]
            m == d.metadata.method
        IN m # "absent" =>
            /\ m \in {"transcript-api", "description"}
            /\ m = "transcript-api" <=>
                  /\ outcome.transcript = "returned"
                  /\ d.page_content = Join(S_space, transcript_list)
            /\ m = "description" <=>
                  /\ outcome.ytdlp = "returned"
                  /\ outcome.transcript # "returned"
                  /\ d.page_content = SubSeq(description, 1, Min(Len(description), DescMaxLen))

\* The segments "Hello", "world" reach the summarization call as "Hello world".
C8_Witness ==
    /\ outcome.chain # "untried"
    /\ transcript_list = <<T_hello, T_world>>
    /\ summarizer_input.items =
          <<SimpleDoc(T_hello \o <<" ">> \o T_world, generic_url, "transcript-api")>>

\* The part of s after the first occurrence of sub.
AfterFirst(s, sub) == SubSeq(s, Find(s, sub) + Len(sub), Len(s))

\* The part of s before the first occurrence of sub, all of s if there is none.
UpToFirst(s, sub) == IF Find(s, sub) = 0 THEN s ELSE SubSeq(s, 1, Find(s, sub) - 1)

\* C9 as stated: the identifier is what follows "watch?v=" up to the first
\* "&", else what follows "youtu.be/" up to the first "?", else nothing.
C9_ExtractAsStated ==
    pc = "extract_out" =>
        video_id =
            IF Contains(generic_url, S_yt_watch)
            THEN UpToFirst(AfterFirst(generic_url, S_watch), S_amp)
            ELSE IF Contains(generic_url, S_youtu_be_slash)
            THEN UpToFirst(AfterFirst(generic_url, S_youtu_be_slash), S_qmark)
            ELSE None

\* C9 amended: the identifier is what follows the first "watch?v=" up to the
\* next "watch?v=" or the first "&", whichever comes first; else what follows
\* the first "youtu.be/" up to the next "youtu.be/" or the first "?",
\* whichever comes first; else nothing.  The indexing never goes out of range.
C9_ExtractFirstField ==
    pc = "extract_out" =>
        /\ Contains(generic_url, S_yt_watch) => Len(Split(generic_url, S_watch)) >= 2
        /\ Contains(generic_url, S_youtu_be_slash) =>
              Len(Split(generic_url, S_youtu_be_slash)) >= 2
        /\ video_id =
              IF Contains(generic_url, S_yt_watch)
              THEN UpToFirst(UpToFirst(AfterFirst(generic_url, S_watch), S_watch), S_amp)
              ELSE IF Contains(generic_url, S_youtu_be_slash)
              THEN UpToFirst(UpToFirst(AfterFirst(generic_url, S_youtu_be_slash),
                                       S_youtu_be_slash), S_qmark)
              ELSE None

\* "youtube.com/watch?v=ab&" gives "ab".
C9_Witness ==
    /\ pc = "extract_out"
    /\ generic_url = S_yt_watch \o P_id \o S_amp
    /\ video_id = P_id

\* C10: once the video downloader has returned a description, the fallback
\* yields content exactly when the description is longer than 100 characters;
\* the content is then the first min(length, 2000) characters of it, so more
\* than 100 and at most 2000 characters long; otherwise nothing is yielded.
C10_DescriptionBounds ==
    outcome.ytdlp = "returned" =>
        LET yielded == method = "description"
        IN /\ yielded <=> (description # None /\ Len(description) > 100)
           /\ yielded =>
                 /\ transcript_text # None
                 /\ Len(transcript_text) = Min(Len(description), 2000)
                 /\ \A i \in 1..Len(transcript_text) : transcript_text[i] = description[i]
                 /\ Len(transcript_text) > 100
                 /\ Len(transcript_text) <= 2000
                 /\ HasDocument(docs)
                 /\ docs.items[1].page_content = transcript_text
           /\ ~yielded => (transcript_text = None /\ method = "None" /\ ~HasDocument(docs))

\* A description of 2001 characters is cut to 2000.
C10_Witness ==
    /\ outcome.ytdlp = "returned"
    /\ description # None
    /\ Len(description) = 2001
    /\ transcript_text # None
    /\ Len(transcript_text) = 2000
    /\ method = "description"

====
